---------------------------- MODULE Spec2Model ----------------------------
(***************************************************************************)
(* Audio Merger GUI (src/src/main.rs): the UI thread (AudioMergerApp and   *)
(* its update() frames), the merge worker thread spawned by start_merge,   *)
(* the mpsc channel between them, and the ffprobe / ffmpeg subprocesses.   *)
(*                                                                         *)
(* Strings that the code inspects character by character (language tags)   *)
(* are sequences of character codes; every other string is opaque.         *)
(* Option<T> is a record: [some |-> FALSE] or [some |-> TRUE, val |-> v].  *)
(* A log line is a tuple <<format text, arguments...>>.                    *)
(***************************************************************************)
EXTENDS Integers, Sequences, FiniteSets, TLC

VARIABLES
    video_path,            \* AudioMergerApp.video_path : Option<String>
    audio_path,            \* AudioMergerApp.audio_path : Option<String>
    output_path,           \* AudioMergerApp.output_path : Option<String>
    audio_tracks,          \* AudioMergerApp.audio_tracks : Vec<AudioStream>
    selected_audio_track,  \* AudioMergerApp.selected_audio_track : Option<u32>
    logs,                  \* AudioMergerApp.logs, its last LogWindow lines
    is_merging,            \* AudioMergerApp.is_merging
    chan,                  \* the mpsc channel (tx, rx): messages in flight
    ui,                    \* where the UI thread is inside update()
    workers,               \* the live merge worker threads
    probe_in,              \* probing harness: the tool reply and language code
    probe_out,             \* probing harness: what the functions returned
    merge_lines,           \* AudioMergerApp.logs: the kinds of the worker's
                           \* lines after the newest "Starting merge" line
    procs                  \* the processes of the program that were started

vars == <<video_path, audio_path, output_path, audio_tracks,
          selected_audio_track, logs, is_merging, chan, ui, workers,
          probe_in, probe_out, merge_lines, procs>>

app_vars == <<video_path, audio_path, output_path, audio_tracks,
              selected_audio_track, logs, is_merging, chan, ui, workers,
              merge_lines>>

(***************************************************************************)
(* Bounds of the model.                                                    *)
(***************************************************************************)
MaxStreams == 3   \* longest stream list of a generated ffprobe payload
LogWindow == 1    \* how many of the newest lines of self.logs are kept
MaxLaunches == 2  \* how many times the user starts the program

(***************************************************************************)
(* Option<T>                                                               *)
(***************************************************************************)
None == [some |-> FALSE]
Some(v) == [some |-> TRUE, val |-> v]

(***************************************************************************)
(* Character strings.                                                      *)
(***************************************************************************)
STR_eng == <<101, 110, 103>>
STR_ENG == <<69, 78, 71>>
STR_por == <<112, 111, 114>>
STR_Por == <<80, 111, 114>>
STR_spa == <<115, 112, 97>>
STR_unknown == <<117, 110, 107, 110, 111, 119, 110>>

\* u8::to_ascii_lowercase
ToAsciiLowercase(c) == IF c \in 65..90 THEN c + 32 ELSE c

\* str::eq_ignore_ascii_case
EqIgnoreAsciiCase(a, b) ==
    /\ Len(a) = Len(b)
    /\ \A i \in 1..Len(a) : ToAsciiLowercase(a[i]) = ToAsciiLowercase(b[i])

(***************************************************************************)
(* serde_json values, as far as the code looks into them.                  *)
(***************************************************************************)
JAbsent == [t |-> "absent"]
JNum(n) == [t |-> "num", num |-> n]
JStr(s) == [t |-> "str", chars |-> s]
JObj(language) == [t |-> "obj", language |-> language]
JArr(a) == [t |-> "arr", items |-> a]

\* Value::as_u64
AsU64(v) == IF v.t = "num" /\ v.num >= 0 THEN Some(v.num) ELSE None

\* Value::as_str
AsStr(v) == IF v.t = "str" THEN Some(v.chars) ELSE None

\* s.get("tags").and_then(|t| t.get("language"))
TagsLanguage(s) == IF s.tags.t = "obj" THEN s.tags.language ELSE JAbsent

(***************************************************************************)
(* What one run of ffprobe can answer.                                     *)
(***************************************************************************)
LaunchFailed == [launched |-> FALSE]
ExitedNonZero == [launched |-> TRUE, success |-> FALSE]
Printed(stdout) == [launched |-> TRUE, success |-> TRUE, stdout |-> stdout]
NotJson == [json |-> FALSE]
Json(streams) == [json |-> TRUE, streams |-> streams]
Stream(index, tags) == [index |-> index, tags |-> tags]

(***************************************************************************)
(* get_all_audio_tracks, find_audio_track                                  *)
(***************************************************************************)
RECURSIVE CollectStreamsMissingIndexAborts(_, _)
CollectStreamsMissingIndexAborts(streams, i) ==
    IF i > Len(streams) THEN [result |-> <<>>, msgs |-> <<>>, ok |-> TRUE]
    ELSE LET idx == AsU64(streams[i].index)
             lang == LET l == AsStr(TagsLanguage(streams[i]))
                     IN  IF l.some THEN l.val ELSE STR_unknown
             rest == CollectStreamsMissingIndexAborts(streams, i + 1)
         IN  IF ~idx.some \/ ~rest.ok
             THEN [result |-> <<>>, msgs |-> <<>>, ok |-> FALSE]
             ELSE [result |-> <<<<idx.val, lang>>>> \o rest.result,
                   msgs |-> <<<<"Found stream {} with lang \"{}\"",
                                idx.val, lang>>>> \o rest.msgs,
                   ok |-> TRUE]

RECURSIVE CollectStreamsUntaggedOmitted(_, _)
CollectStreamsUntaggedOmitted(streams, i) ==
    IF i > Len(streams) THEN [result |-> <<>>, msgs |-> <<>>]
    ELSE LET idx == AsU64(streams[i].index)
             l == AsStr(TagsLanguage(streams[i]))
             rest == CollectStreamsUntaggedOmitted(streams, i + 1)
         IN  IF idx.some /\ l.some
             THEN [result |-> <<<<idx.val, l.val>>>> \o rest.result,
                   msgs |-> <<<<"Found stream {} with lang \"{}\"",
                                idx.val, l.val>>>> \o rest.msgs]
             ELSE rest

\* The loop of get_all_audio_tracks over streams[i..]: the descriptors pushed
\* and the lines logged. (idx as u32 keeps every index below 2^32 as it is;
\* the indices of the model are all far below that.)
RECURSIVE CollectStreams(_, _)
CollectStreams(streams, i) ==
    IF i > Len(streams) THEN [result |-> <<>>, msgs |-> <<>>]
    ELSE LET idx == AsU64(streams[i].index)
             lang == LET l == AsStr(TagsLanguage(streams[i]))
                     IN  IF l.some THEN l.val ELSE STR_unknown
             rest == CollectStreams(streams, i + 1)
         IN  IF idx.some
             THEN [result |-> <<<<idx.val, lang>>>> \o rest.result,
                   msgs |-> <<<<"Found stream {} with lang \"{}\"",
                                idx.val, lang>>>> \o rest.msgs]
             ELSE rest

GetAllAudioTracksReturnSilent(file_path, reply) ==
    IF ~reply.launched \/ ~reply.success
    THEN [result |-> <<>>, msgs |-> <<>>]
    ELSE LET json_line == <<"ffprobe JSON: {}", reply.stdout>>
         IN  IF ~reply.stdout.json \/ reply.stdout.streams.t # "arr"
             THEN [result |-> <<>>, msgs |-> <<json_line>>]
             ELSE LET c == CollectStreams(reply.stdout.streams.items, 1)
                  IN  [result |-> c.result, msgs |-> <<json_line>> \o c.msgs]

\* get_all_audio_tracks from the point where ffprobe has answered `reply`:
\* the returned Vec and the lines given to log_fn, in order.
GetAllAudioTracksReturn(file_path, reply) ==
    IF ~reply.launched
    THEN [result |-> <<>>, msgs |-> <<<<"ffprobe failed to execute: {}">>>>]
    ELSE IF ~reply.success
    THEN [result |-> <<>>,
          msgs |-> <<<<"ffprobe returned nonzero for {}", file_path>>>>]
    ELSE LET json_line == <<"ffprobe JSON: {}", reply.stdout>>
         IN  IF ~reply.stdout.json
             THEN [result |-> <<>>,
                   msgs |-> <<json_line, <<"JSON parse error: {}">>>>]
             ELSE IF reply.stdout.streams.t # "arr"
             THEN [result |-> <<>>,
                   msgs |-> <<json_line,
                              <<"No streams array in ffprobe output">>>>]
             ELSE LET c == CollectStreams(reply.stdout.streams.items, 1)
                  IN  [result |-> c.result, msgs |-> <<json_line>> \o c.msgs]

\* The first line of get_all_audio_tracks, logged before ffprobe is run.
ProbingLine(file_path) == <<"ffprobe -> probing: {}", file_path>>

\* get_all_audio_tracks as one call.
GetAllAudioTracks(file_path, reply) ==
    LET r == GetAllAudioTracksReturn(file_path, reply)
    IN  [result |-> r.result, msgs |-> <<ProbingLine(file_path)>> \o r.msgs]

RECURSIVE FirstMatchLast(_, _)
FirstMatchLast(tracks, language_code) ==
    IF tracks = <<>> THEN None
    ELSE LET t == tracks[Len(tracks)]
         IN  IF EqIgnoreAsciiCase(t[2], language_code) THEN Some(t[1])
             ELSE FirstMatchLast(SubSeq(tracks, 1, Len(tracks) - 1),
                                 language_code)

\* for (idx, lang) in tracks { if lang.eq_ignore_ascii_case(code) { return Some(idx) } } None
RECURSIVE FirstMatch(_, _)
FirstMatch(tracks, language_code) ==
    IF tracks = <<>> THEN None
    ELSE IF EqIgnoreAsciiCase(tracks[1][2], language_code)
    THEN Some(tracks[1][1])
    ELSE FirstMatch(Tail(tracks), language_code)

\* find_audio_track as one call.
FindAudioTrack(file_path, language_code, reply) ==
    LET g == GetAllAudioTracks(file_path, reply)
    IN  [result |-> FirstMatch(g.result, language_code), msgs |-> g.msgs]

(***************************************************************************)
(* The environment: the files the dialogs offer, and what the tools do.    *)
(***************************************************************************)
VideoPaths == {"movie.mkv"}
AudioPaths == {"dub.mka", "alt.mka"}

\* The paths the "Save output as .mkv" dialog returns.
OutPaths == {"out.mkv"}

\* The audio streams ffprobe lists for each file when it runs normally.
Listing(path) ==
    IF path = "movie.mkv"
    THEN <<Stream(JNum(1), JObj(JStr(STR_spa))),
           Stream(JNum(3), JObj(JStr(STR_eng)))>>
    ELSE IF path = "alt.mka"
    THEN <<Stream(JNum(2), JObj(JStr(STR_ENG)))>>
    ELSE <<Stream(JNum(0), JObj(JStr(STR_Por)))>>

\* Every answer one run of ffprobe on `path` can give: it cannot be
\* launched, exits non-zero, prints something that is not JSON, prints JSON
\* without a streams array, finds no audio stream, or lists the streams.
FfprobeAnswers(path) ==
    {LaunchFailed, ExitedNonZero, Printed(NotJson), Printed(Json(JAbsent)),
     Printed(Json(JArr(<<>>))), Printed(Json(JArr(Listing(path))))}

\* Exit codes of an ffmpeg run that was launched.
ExitCodes == {0, 1}

\* What Command::status() of ffmpeg gives: Err, or the exit status.
Exited(code) == [launched |-> TRUE, code |-> code]
FfmpegResults == {LaunchFailed} \cup {Exited(code) : code \in ExitCodes}

(***************************************************************************)
(* Processes of the program. A process is its command line (args[1] is the *)
(* executable), the process that started it (0: the user), where it is     *)
(* ("main": before ensure_admin, "init": ensure_admin returned,             *)
(* "relaunching": in do_relaunch after ShellExecuteW acted, "gui": in       *)
(* run_native, "closed": the window was closed, "exited": process::exit in *)
(* do_relaunch, "panicked", "crashed") and the branch of ensure_admin it   *)
(* left by. An argument of a command line is what the system holds (an     *)
(* OsString): its text, and whether it is valid Unicode.                   *)
(***************************************************************************)
ELEVATED == "--elevated"
Exe == "audio_merger.exe"

Arg(text) == [text |-> text, unicode |-> TRUE]
NonUnicodeArg == [text |-> "\\uD800", unicode |-> FALSE]

\* The paths the executable may lie at: current_exe() gives an OsString,
\* which need not be valid Unicode.
NonUnicodeExe == [text |-> "audio_merger_\\xFF.exe", unicode |-> FALSE]
ExePaths == {Arg(Exe), NonUnicodeExe}

\* What std::env::current_exe() gives: Err, or the path.
NoExe == [ok |-> FALSE]
ExeAt(path) == [ok |-> TRUE, path |-> path]
CurrentExe == {NoExe} \cup {ExeAt(path) : path \in ExePaths}

\* The command line do_relaunch gives ShellExecuteW: the path of the
\* executable as it is, and the parameter "--elevated".
RelaunchArgs(path) == <<path, Arg(ELEVATED)>>

Process(args, parent) ==
    [args |-> args, parent |-> parent, pc |-> "main", via |-> "none"]

\* std::env::args() panics on an argument that is not valid Unicode, and
\* gives the arguments as Strings otherwise.
ArgsAreUnicode(args) == \A k \in 1..Len(args) : args[k].unicode
ArgStrings(args) == [k \in 1..Len(args) |-> args[k].text]

\* args.iter().any(|s| s == "--elevated")
HasElevatedArg(args) == \E k \in 1..Len(args) : args[k] = ELEVATED

\* The process whose window the frames of update() belong to.
GuiProcess ==
    [args |-> RelaunchArgs(Arg(Exe)), parent |-> 0, pc |-> "gui",
     via |-> "flag"]

(***************************************************************************)
(* AudioMergerApp                                                          *)
(***************************************************************************)
MERGE_DONE == <<"MERGE_DONE">>

\* The newest LogWindow lines of a log.
Newest(l) ==
    IF Len(l) > LogWindow THEN SubSeq(l, Len(l) - LogWindow + 1, Len(l))
    ELSE l

\* append_log(message): self.logs.push(message)
AppendLog(l, message) == Newest(Append(l, message))

\* append_log for each of `messages` in turn
AppendLogs(l, messages) == Newest(l \o messages)

\* The lines that only start_merge and its worker thread write, by what they
\* report.
MergeTexts ==
    ("Starting merge with external audio index {}..." :> "start")
    @@ ("ffprobe -> searching for 'eng' in video..." :> "searching")
    @@ ("Found 'eng' at index {}." :> "eng")
    @@ ("No 'eng' in video; using fallback audio 0:1 from video." :> "eng")
    @@ ("Running ffmpeg to merge..." :> "running")
    @@ ("Merge completed successfully!" :> "outcome")
    @@ ("Merge completed successfully (fallback video audio)!" :> "outcome")
    @@ ("ffmpeg exited with code {:?}." :> "outcome")
    @@ ("Error: Unable to run ffmpeg.exe." :> "outcome")
    @@ ("Merge thread finished." :> "finished")

\* What a line of the log reports; every line of another writer is "other".
MergeLineKind(line) ==
    IF line[1] \in DOMAIN MergeTexts THEN MergeTexts[line[1]] ELSE "other"

\* The lines of one merge in the order the worker thread sends them.
MergeLineOrder == <<"searching", "eng", "running", "outcome", "finished">>

\* self.logs after `lines` were pushed, read as the kinds of the worker's
\* lines that follow the newest "Starting merge" line; `ml` is that reading
\* before the push.
MergeLines(ml, lines) ==
    LET kinds == [k \in 1..Len(lines) |-> MergeLineKind(lines[k])]
        starts == {k \in 1..Len(lines) : kinds[k] = "start"}
    IN  SelectSeq(IF starts = {} THEN ml \o kinds
                  ELSE SubSeq(kinds,
                              1 + CHOOSE k \in starts : \A j \in starts : j <= k,
                              Len(lines)),
                  LAMBDA x : x \notin {"start", "other"})

\* The UI thread at `pc`: "poll" (before the drain loop of update()),
\* "widgets" (after it), "probe_wait" (inside probe_audio_tracks, waiting for
\* ffprobe) or "probe_send" (inside get_all_audio_tracks after the answer,
\* with the lines still to send in `out` and its result in `tracks`); `path`
\* is the file being probed.
UiAt(pc) == [pc |-> pc, path |-> "", out |-> <<>>, tracks |-> <<>>]

\* impl Default for AudioMergerApp
Init ==
    /\ video_path = None
    /\ audio_path = None
    /\ output_path = None
    /\ audio_tracks = <<>>
    /\ selected_audio_track = None
    /\ logs = <<>>
    /\ is_merging = FALSE
    /\ chan = <<>>
    /\ ui = UiAt("poll")
    /\ workers = <<>>
    /\ probe_in = [reply |-> LaunchFailed, code |-> STR_eng]
    /\ probe_out = [called |-> "none"]
    /\ merge_lines = <<>>
    /\ procs = <<GuiProcess>>

DrainedLinesNewestFirst(msgs) ==
    [k \in 1..Len(msgs) |->
        IF msgs[Len(msgs) + 1 - k] = MERGE_DONE
        THEN <<"Merge thread finished.">>
        ELSE msgs[Len(msgs) + 1 - k]]

\* The drain loop of update(): the lines it gives to append_log, in that
\* order, when the messages `msgs` are received in order:
\* "Merge thread finished." for MERGE_DONE and the message itself otherwise.
DrainedLines(msgs) ==
    [k \in 1..Len(msgs) |->
        IF msgs[k] = MERGE_DONE THEN <<"Merge thread finished.">>
        ELSE msgs[k]]

\* The drain loop of update(): the state of (logs, is_merging) after the
\* messages `msgs` were received in order.
\* Each message appends one line; MERGE_DONE also clears is_merging, and
\* nothing in the loop sets it.
Drained(msgs, l, merging) ==
    [logs |-> AppendLogs(l, DrainedLines(msgs)),
     is_merging |-> merging /\ \A k \in 1..Len(msgs) : msgs[k] # MERGE_DONE]

\* update(), part 1: while let Ok(msg) = self.rx.try_recv() { ... }
Poll ==
    /\ ui.pc = "poll"
    /\ LET d == Drained(chan, logs, is_merging)
       IN  /\ logs' = d.logs
           /\ merge_lines' = MergeLines(merge_lines, DrainedLines(chan))
           /\ is_merging' = d.is_merging
    /\ chan' = <<>>
    /\ ui' = UiAt("widgets")
    /\ UNCHANGED <<video_path, audio_path, output_path, audio_tracks,
                   selected_audio_track, workers, probe_in, probe_out,
                   procs>>

\* update(), part 2, when no widget is clicked or a dialog is cancelled
FrameEnd ==
    /\ ui.pc = "widgets"
    /\ ui' = UiAt("poll")
    /\ UNCHANGED <<video_path, audio_path, output_path, audio_tracks,
                   selected_audio_track, logs, is_merging, chan, workers,
                   probe_in, probe_out,
                   merge_lines, procs>>

\* update(): "Select Video File" clicked and a file picked
SelectVideo(s) ==
    /\ ui.pc = "widgets"
    /\ video_path' = Some(s)
    /\ logs' = AppendLog(logs, <<"Video selected: {}", s>>)
    /\ ui' = UiAt("poll")
    /\ UNCHANGED <<audio_path, output_path, audio_tracks,
                   selected_audio_track, is_merging, chan, workers,
                   probe_in, probe_out,
                   merge_lines, procs>>

\* update(): "Select Audio File" clicked and a file picked, up to the point
\* where probe_audio_tracks waits for ffprobe (Command::output)
SelectAudio(s) ==
    /\ ui.pc = "widgets"
    /\ audio_path' = Some(s)
    /\ logs' = AppendLogs(logs, <<<<"Audio selected: {}", s>>,
                                  <<"Probing audio streams in: {}", s>>>>)
    /\ chan' = Append(chan, ProbingLine(s))
    /\ ui' = [UiAt("probe_wait") EXCEPT !.path = s]
    /\ UNCHANGED <<video_path, output_path, audio_tracks,
                   selected_audio_track, is_merging, workers,
                   probe_in, probe_out,
                   merge_lines, procs>>

ProbeFinishKeepsSelection(tracks) ==
    LET sel == FirstMatch(tracks, STR_por)
    IN  /\ audio_tracks' = tracks
        /\ selected_audio_track' =
               IF sel.some THEN sel ELSE selected_audio_track
        /\ logs' = AppendLog(logs,
             IF sel.some
             THEN <<"Auto-selected Portuguese track index {}.", sel.val>>
             ELSE IF tracks = <<>>
             THEN <<"Warning: No audio streams found in that file.">>
             ELSE <<"No 'por' track found; please pick from dropdown.">>)
        /\ ui' = UiAt("poll")

\* probe_audio_tracks after get_all_audio_tracks returned `tracks`, and the
\* rest of the frame.
ProbeFinish(tracks) ==
    LET sel == FirstMatch(tracks, STR_por)
    IN  /\ audio_tracks' = tracks
        /\ selected_audio_track' = sel
        /\ logs' = AppendLog(logs,
             IF sel.some
             THEN <<"Auto-selected Portuguese track index {}.", sel.val>>
             ELSE IF tracks = <<>>
             THEN <<"Warning: No audio streams found in that file.">>
             ELSE <<"No 'por' track found; please pick from dropdown.">>)
        /\ ui' = UiAt("poll")

\* get_all_audio_tracks on the UI thread sends `msgs[1]`; `msgs` are the
\* lines it has still to send and `tracks` is what it returns. After its
\* last line it returns and probe_audio_tracks runs to its end: nothing
\* another thread can see lies between that send and the return.
ProbeSends(msgs, tracks) ==
    /\ chan' = Append(chan, Head(msgs))
    /\ IF Tail(msgs) = <<>>
       THEN ProbeFinish(tracks)
       ELSE /\ ui' = [ui EXCEPT !.pc = "probe_send", !.out = Tail(msgs),
                                !.tracks = tracks]
            /\ UNCHANGED <<audio_tracks, selected_audio_track, logs>>
    /\ UNCHANGED <<video_path, audio_path, output_path, is_merging, workers,
                   probe_in, probe_out, merge_lines, procs>>

\* get_all_audio_tracks called by probe_audio_tracks: ffprobe answers and
\* the first line about the answer is sent.
ProbeReturn(reply) ==
    /\ ui.pc = "probe_wait"
    /\ LET r == GetAllAudioTracksReturn(ui.path, reply)
       IN  ProbeSends(r.msgs, r.result)

\* get_all_audio_tracks called by probe_audio_tracks: its next line.
ProbeSend ==
    /\ ui.pc = "probe_send"
    /\ ProbeSends(ui.out, ui.tracks)

\* update(): an entry of the "Choose audio stream" dropdown clicked
SelectTrack(k) ==
    /\ ui.pc = "widgets"
    /\ ~selected_audio_track.some
    /\ audio_tracks # <<>>
    /\ k \in 1..Len(audio_tracks)
    /\ selected_audio_track' = Some(audio_tracks[k][1])
    /\ ui' = UiAt("poll")
    /\ UNCHANGED <<video_path, audio_path, output_path, audio_tracks, logs,
                   is_merging, chan, workers, probe_in, probe_out,
                   merge_lines, procs>>

\* update(): "Select Output File" clicked and a path given
SelectOutput(s) ==
    /\ ui.pc = "widgets"
    /\ output_path' = Some(s)
    /\ logs' = AppendLog(logs, <<"Output selected: {}", s>>)
    /\ ui' = UiAt("poll")
    /\ UNCHANGED <<video_path, audio_path, audio_tracks,
                   selected_audio_track, is_merging, chan, workers,
                   probe_in, probe_out,
                   merge_lines, procs>>

\* The thread start_merge spawns, with the values moved into its closure.
NewWorker(video, audio, output, track) ==
    [pc |-> "spawned", video |-> video, audio |-> audio, output |-> output,
     track |-> track, tracks |-> <<>>, eng |-> None, cmd |-> <<>>,
     out |-> <<>>]

StartMergeRejects(message) ==
    /\ logs' = AppendLog(logs, message)
    /\ merge_lines' = MergeLines(merge_lines, <<message>>)
    /\ UNCHANGED <<is_merging, workers>>

\* The line start_merge logs when it hands the merge to a new thread.
StartingLine(track) ==
    <<"Starting merge with external audio index {}...", track>>

StartMergeNoBusyCheck ==
    /\ ui.pc = "widgets"
    /\ IF ~video_path.some
       THEN StartMergeRejects(<<"Error: Please select a video file first.">>)
       ELSE IF ~audio_path.some
       THEN StartMergeRejects(<<"Error: Please select an audio file first.">>)
       ELSE IF ~output_path.some
       THEN StartMergeRejects(<<"Error: Please select an output path first.">>)
       ELSE IF ~selected_audio_track.some
       THEN StartMergeRejects(
                <<"Error: Please pick an audio track from the dropdown.">>)
       ELSE /\ is_merging' = TRUE
            /\ logs' = AppendLog(logs,
                   StartingLine(selected_audio_track.val))
            /\ merge_lines' =
                   MergeLines(merge_lines,
                              <<StartingLine(selected_audio_track.val)>>)
            /\ workers' = Append(workers,
                   NewWorker(video_path.val, audio_path.val, output_path.val,
                             selected_audio_track.val))
    /\ ui' = UiAt("poll")
    /\ UNCHANGED <<video_path, audio_path, output_path, audio_tracks,
                   selected_audio_track, chan, probe_in, probe_out, procs>>

StartMergeBusyBeforeValidation ==
    /\ ui.pc = "widgets"
    /\ IF is_merging
       THEN /\ UNCHANGED <<logs, merge_lines, is_merging, workers>>
       ELSE IF ~video_path.some
       THEN StartMergeRejects(<<"Error: Please select a video file first.">>)
       ELSE IF ~audio_path.some
       THEN StartMergeRejects(<<"Error: Please select an audio file first.">>)
       ELSE IF ~output_path.some
       THEN StartMergeRejects(<<"Error: Please select an output path first.">>)
       ELSE IF ~selected_audio_track.some
       THEN /\ is_merging' = TRUE
            /\ logs' = AppendLog(logs,
                   <<"Error: Please pick an audio track from the dropdown.">>)
            /\ UNCHANGED <<merge_lines, workers>>
       ELSE /\ is_merging' = TRUE
            /\ logs' = AppendLog(logs,
                   StartingLine(selected_audio_track.val))
            /\ merge_lines' =
                   MergeLines(merge_lines,
                              <<StartingLine(selected_audio_track.val)>>)
            /\ workers' = Append(workers,
                   NewWorker(video_path.val, audio_path.val, output_path.val,
                             selected_audio_track.val))
    /\ ui' = UiAt("poll")
    /\ UNCHANGED <<video_path, audio_path, output_path, audio_tracks,
                   selected_audio_track, chan, probe_in, probe_out, procs>>

\* start_merge, from its first line to its return (the thread it spawns
\* runs on its own).
StartMerge ==
    /\ ui.pc = "widgets"
    /\ IF ~video_path.some
       THEN StartMergeRejects(<<"Error: Please select a video file first.">>)
       ELSE IF ~audio_path.some
       THEN StartMergeRejects(<<"Error: Please select an audio file first.">>)
       ELSE IF ~output_path.some
       THEN StartMergeRejects(<<"Error: Please select an output path first.">>)
       ELSE IF ~selected_audio_track.some
       THEN StartMergeRejects(
                <<"Error: Please pick an audio track from the dropdown.">>)
       ELSE IF is_merging
       THEN StartMergeRejects(<<"Merge is already in progress.">>)
       ELSE /\ is_merging' = TRUE
            /\ logs' = AppendLog(logs,
                   StartingLine(selected_audio_track.val))
            /\ merge_lines' =
                   MergeLines(merge_lines,
                              <<StartingLine(selected_audio_track.val)>>)
            /\ workers' = Append(workers,
                   NewWorker(video_path.val, audio_path.val, output_path.val,
                             selected_audio_track.val))
    /\ ui' = UiAt("poll")
    /\ UNCHANGED <<video_path, audio_path, output_path, audio_tracks,
                   selected_audio_track, chan, probe_in, probe_out, procs>>

(***************************************************************************)
(* The merge worker: the closure of thread::spawn in start_merge           *)
(***************************************************************************)
\* format!("{}:{}", input, stream)
MapArg(input, stream) == ToString(input) \o ":" \o ToString(stream)

FfmpegArgsFromUiState(video, audio, video_audio, track, output) ==
    <<"-hide_banner", "-loglevel", "error", "-y", "-i", video_path.val,
      "-i", audio_path.val, "-map", "0:0", "-map", video_audio,
      "-map", MapArg(1, track), "-c", "copy", output_path.val>>

\* The argument list both branches give to Command::new("ffmpeg").
FfmpegArgs(video, audio, video_audio, track, output) ==
    <<"-hide_banner", "-loglevel", "error", "-y", "-i", video, "-i", audio,
      "-map", "0:0", "-map", video_audio, "-map", MapArg(1, track),
      "-c", "copy", output>>

\* The second -map argument: 0:{eng_idx}, or the fallback 0:1.
VideoAudioMapOffByOne(eng) ==
    IF eng.some THEN MapArg(0, IF eng.val > 0 THEN eng.val - 1 ELSE 0)
    ELSE "0:1"

VideoAudioMap(eng) == IF eng.some THEN MapArg(0, eng.val) ELSE "0:1"

Replace(seq, i, w) == [seq EXCEPT ![i] = w]
Remove(seq, i) == SubSeq(seq, 1, i - 1) \o SubSeq(seq, i + 1, Len(seq))

\* The thread starts: the first log line, and find_audio_track up to the
\* point where get_all_audio_tracks waits for ffprobe.
WorkerBegin(i) ==
    /\ i \in 1..Len(workers)
    /\ workers[i].pc = "spawned"
    /\ chan' = Append(chan, <<"ffprobe -> searching for 'eng' in video...">>)
    /\ workers' = Replace(workers, i,
            [workers[i] EXCEPT !.pc = "probe_wait",
                               !.out = <<ProbingLine(workers[i].video)>>])
    /\ UNCHANGED <<video_path, audio_path, output_path, audio_tracks,
                   selected_audio_track, logs, is_merging, ui,
                   probe_in, probe_out,
                   merge_lines, procs>>

\* The next log() of the worker before its next blocking call.
WorkerSend(i) ==
    /\ i \in 1..Len(workers)
    /\ workers[i].out # <<>>
    /\ chan' = Append(chan, Head(workers[i].out))
    /\ workers' = Replace(workers, i,
            [workers[i] EXCEPT !.out = Tail(workers[i].out)])
    /\ UNCHANGED <<video_path, audio_path, output_path, audio_tracks,
                   selected_audio_track, logs, is_merging, ui,
                   probe_in, probe_out,
                   merge_lines, procs>>

\* ffprobe has answered: get_all_audio_tracks sends its first line about
\* the answer. The lines that follow up to Command::status of ffmpeg (the
\* rest of get_all_audio_tracks, the match on the result of
\* find_audio_track, "Running ffmpeg to merge...") are in `out`, and the
\* values the thread computes on the way are in tracks, eng and cmd.
WorkerProbed(i, reply) ==
    /\ i \in 1..Len(workers)
    /\ workers[i].pc = "probe_wait"
    /\ workers[i].out = <<>>
    /\ LET w == workers[i]
           r == GetAllAudioTracksReturn(w.video, reply)
           eng == FirstMatch(r.result, STR_eng)
           found == IF eng.some
                    THEN <<"Found 'eng' at index {}.", eng.val>>
                    ELSE <<"No 'eng' in video; using fallback audio 0:1 from video.">>
           cmd == FfmpegArgs(w.video, w.audio, VideoAudioMap(eng), w.track,
                             w.output)
       IN  /\ chan' = Append(chan, Head(r.msgs))
           /\ workers' = Replace(workers, i,
                  [w EXCEPT !.pc = "ffmpeg_wait",
                            !.out = Tail(r.msgs)
                                    \o <<found, <<"Running ffmpeg to merge...">>>>,
                            !.tracks = r.result, !.eng = eng, !.cmd = cmd])
    /\ UNCHANGED <<video_path, audio_path, output_path, audio_tracks,
                   selected_audio_track, logs, is_merging, ui,
                   probe_in, probe_out,
                   merge_lines, procs>>

\* Command::status() of ffmpeg has returned `result`: the outcome line.
WorkerFfmpegExit(i, result) ==
    /\ i \in 1..Len(workers)
    /\ workers[i].pc = "ffmpeg_wait"
    /\ workers[i].out = <<>>
    /\ chan' = Append(chan,
            IF ~result.launched
            THEN <<"Error: Unable to run ffmpeg.exe.">>
            ELSE IF result.code = 0
            THEN IF workers[i].eng.some
                 THEN <<"Merge completed successfully!">>
                 ELSE <<"Merge completed successfully (fallback video audio)!">>
            ELSE <<"ffmpeg exited with code {:?}.", Some(result.code)>>)
    /\ workers' = Replace(workers, i, [workers[i] EXCEPT !.pc = "finish"])
    /\ UNCHANGED <<video_path, audio_path, output_path, audio_tracks,
                   selected_audio_track, logs, is_merging, ui,
                   probe_in, probe_out,
                   merge_lines, procs>>

WorkerDoneNoSignal(i) ==
    /\ i \in 1..Len(workers)
    /\ workers[i].pc = "finish"
    /\ workers' = Remove(workers, i)
    /\ UNCHANGED <<video_path, audio_path, output_path, audio_tracks,
                   selected_audio_track, logs, is_merging, ui, chan,
                   probe_in, probe_out,
                   merge_lines, procs>>

\* thread_tx.send("MERGE_DONE"), and the thread ends.
WorkerDone(i) ==
    /\ i \in 1..Len(workers)
    /\ workers[i].pc = "finish"
    /\ chan' = Append(chan, MERGE_DONE)
    /\ workers' = Remove(workers, i)
    /\ UNCHANGED <<video_path, audio_path, output_path, audio_tracks,
                   selected_audio_track, logs, is_merging, ui,
                   probe_in, probe_out,
                   merge_lines, procs>>

(***************************************************************************)
(* The program                                                             *)
(***************************************************************************)
\* update(): the "Start Merge" button, which is drawn with
\* add_enabled(!self.is_merging, ..) and so is clicked only when no merge
\* is running.
ClickStartMerge ==
    /\ ~is_merging
    /\ StartMerge

\* One step of the UI thread when the user picks videos among `videos` and
\* external audio files among `audios`, the dropdown aside.
UIFrames(videos, audios) ==
    \/ Poll
    \/ FrameEnd
    \/ \E s \in videos : SelectVideo(s)
    \/ \E s \in audios : SelectAudio(s)
    \/ \E reply \in FfprobeAnswers(ui.path) : ProbeReturn(reply)
    \/ ProbeSend
    \/ \E s \in OutPaths : SelectOutput(s)
    \/ ClickStartMerge

UIStep ==
    \/ UIFrames(VideoPaths, AudioPaths)
    \/ \E k \in 1..Len(audio_tracks) : SelectTrack(k)

WorkerStep(i) ==
    \/ WorkerBegin(i)
    \/ WorkerSend(i)
    \/ \E reply \in FfprobeAnswers(workers[i].video) : WorkerProbed(i, reply)
    \/ \E result \in FfmpegResults : WorkerFfmpegExit(i, result)
    \/ WorkerDone(i)

Next ==
    \/ UIStep
    \/ \E i \in 1..Len(workers) : WorkerStep(i)

Spec == Init /\ [][Next]_vars

\* The program with one video file and one external audio file to pick.
\* The audio file has a "por" stream, so the dropdown is never shown.
OneFileUIStep == UIFrames({"movie.mkv"}, {"dub.mka"})

OneFileNext ==
    \/ OneFileUIStep
    \/ \E i \in 1..Len(workers) : WorkerStep(i)

\* The scheduler runs a live worker thread, every subprocess ends, and the
\* UI keeps producing frames (update() asks for a repaint while merging).
LiveSpec ==
    /\ Init
    /\ [][OneFileNext]_vars
    /\ WF_vars(OneFileUIStep)
    /\ WF_vars(\E i \in 1..Len(workers) : WorkerStep(i))

\* start_merge called as a method in any state of the application, the
\* button's disabled state aside.
DirectNext ==
    \/ OneFileNext
    \/ StartMerge

SpecDirect == Init /\ [][DirectNext]_vars

(***************************************************************************)
(* The probing functions on their own: every answer of ffprobe with at     *)
(* most MaxStreams stream entries, and the functions applied to it.        *)
(***************************************************************************)
GenIndexes == {JAbsent, JNum(0), JNum(2), JNum(-1)}
GenTags == {JAbsent, JObj(JAbsent), JObj(JStr(STR_eng)), JObj(JStr(STR_ENG)),
            JObj(JStr(STR_por))}
GenEntries == {Stream(x, t) : x \in GenIndexes, t \in GenTags}
GenStreams == UNION {[1..n -> GenEntries] : n \in 0..MaxStreams}
GenReplies ==
    {LaunchFailed, ExitedNonZero, Printed(NotJson), Printed(Json(JAbsent)),
     Printed(Json(JStr(STR_spa)))}
    \cup {Printed(Json(JArr(a))) : a \in GenStreams}
GenCodes == {STR_eng, STR_Por}
ProbedFile == "movie.mkv"

ProbeInit ==
    /\ video_path = None
    /\ audio_path = None
    /\ output_path = None
    /\ audio_tracks = <<>>
    /\ selected_audio_track = None
    /\ logs = <<>>
    /\ is_merging = FALSE
    /\ chan = <<>>
    /\ ui = UiAt("poll")
    /\ workers = <<>>
    /\ probe_in \in [reply : GenReplies, code : GenCodes]
    /\ probe_out = [called |-> "none"]
    /\ merge_lines = <<>>
    /\ procs = <<>>

\* get_all_audio_tracks(file_path, &log_fn)
CallGetAllAudioTracks ==
    /\ probe_out.called = "none"
    /\ probe_out' = [called |-> "get_all_audio_tracks",
                     ret |-> GetAllAudioTracks(ProbedFile, probe_in.reply)]
    /\ UNCHANGED <<app_vars, probe_in, procs>>

\* find_audio_track(file_path, language_code, &log_fn)
CallFindAudioTrack ==
    /\ probe_out.called = "none"
    /\ probe_out' = [called |-> "find_audio_track",
                     ret |-> FindAudioTrack(ProbedFile, probe_in.code,
                                            probe_in.reply)]
    /\ UNCHANGED <<app_vars, probe_in, procs>>

\* match find_audio_track(&video, "eng", &log) { ... }: the mapping chosen
CallVideoAudioMap ==
    /\ probe_out.called = "none"
    /\ probe_out' = [called |-> "video_audio_map",
                     ret |-> VideoAudioMap(
                        FindAudioTrack(ProbedFile, STR_eng,
                                       probe_in.reply).result)]
    /\ UNCHANGED <<app_vars, probe_in, procs>>

ProbeNext ==
    \/ CallGetAllAudioTracks
    \/ CallFindAudioTrack
    \/ CallVideoAudioMap

SpecProbe == ProbeInit /\ [][ProbeNext]_vars

(***************************************************************************)
(* Privilege elevation: main() up to the window, for every process of the  *)
(* program, from the moment the user starts it.                            *)
(***************************************************************************)
\* The command lines the user starts the program with: ensure_admin tells
\* them apart only by whether every argument is valid Unicode and whether
\* one equals "--elevated".
UserArgs ==
    { <<Arg(Exe)>>,
      <<Arg(Exe), Arg(ELEVATED)>>,
      <<Arg(Exe), NonUnicodeArg>>,
      <<Arg(Exe), Arg(ELEVATED), NonUnicodeArg>> }

UserLaunched == SelectSeq(procs, LAMBDA p : p.parent = 0)

ElevateInit ==
    /\ video_path = None
    /\ audio_path = None
    /\ output_path = None
    /\ audio_tracks = <<>>
    /\ selected_audio_track = None
    /\ logs = <<>>
    /\ is_merging = FALSE
    /\ chan = <<>>
    /\ ui = UiAt("poll")
    /\ workers = <<>>
    /\ probe_in = [reply |-> LaunchFailed, code |-> STR_eng]
    /\ probe_out = [called |-> "none"]
    /\ merge_lines = <<>>
    /\ procs = <<>>

\* The user starts the program.
UserLaunch(args) ==
    /\ Len(UserLaunched) < MaxLaunches
    /\ procs' = Append(procs, Process(args, 0))
    /\ UNCHANGED <<app_vars, probe_in, probe_out>>

\* ensure_admin returns and main goes on.
Returned(ps, i, via) == [ps EXCEPT ![i].pc = "init", ![i].via = via]

\* do_relaunch up to the point where ShellExecuteW has acted:
\* current_exe().expect(..) panics when the path is not to be had;
\* ShellExecuteW("runas", exe, "--elevated") starts a process or not (its
\* result is ignored), whose first argument is that path, Unicode or not.
\* The caller is then still inside the call ("relaunching"), beside the
\* process it started; process::exit(0) is the step RelaunchExit.
DoRelaunch(ps, i, via, exe, shell_ok) ==
    IF ~exe.ok
    THEN [ps EXCEPT ![i].pc = "panicked", ![i].via = via]
    ELSE [ps EXCEPT ![i].pc = "relaunching", ![i].via = via]
         \o (IF shell_ok THEN <<Process(RelaunchArgs(exe.path), i)>>
                          ELSE <<>>)

\* do_relaunch() in process i up to ShellExecuteW, whatever current_exe and
\* ShellExecuteW do.
Relaunches(i, via) ==
    \E exe \in CurrentExe, shell_ok \in BOOLEAN :
        procs' = DoRelaunch(procs, i, via, exe, shell_ok)

\* ensure_admin from OpenProcessToken on. The results of OpenProcessToken,
\* CreateWellKnownSid and CheckTokenMembership (with its is_member) are
\* whatever the system gives. LocalFree is handed the address of a stack
\* buffer, which is undefined: it returns (free_ok) or the process is
\* terminated.
CheckMembership(i) ==
    \E open_ok \in BOOLEAN :
        IF ~open_ok
        THEN Relaunches(i, "no_token")
        ELSE \E created \in BOOLEAN :
            IF ~created
            THEN procs' = Returned(procs, i, "no_sid")
            ELSE \E checked, is_member, free_ok \in BOOLEAN :
                IF ~free_ok
                THEN procs' = [procs EXCEPT ![i].pc = "crashed",
                                            ![i].via = "local_free"]
                ELSE IF ~checked \/ ~is_member
                THEN Relaunches(i, "not_elevated")
                ELSE procs' = Returned(procs, i, "already_elevated")

EnsureAdminNoGuard(i) ==
    /\ procs[i].pc = "main"
    /\ CheckMembership(i)
    /\ UNCHANGED <<app_vars, probe_in, probe_out>>

\* main(): ensure_admin() in process i. std::env::args().collect() comes
\* first and panics on a non-Unicode argument, before the test of the flag.
EnsureAdmin(i) ==
    /\ procs[i].pc = "main"
    /\ IF ~ArgsAreUnicode(procs[i].args)
       THEN procs' = [procs EXCEPT ![i].pc = "panicked", ![i].via = "args"]
       ELSE IF HasElevatedArg(ArgStrings(procs[i].args))
       THEN procs' = Returned(procs, i, "flag")
       ELSE CheckMembership(i)
    /\ UNCHANGED <<app_vars, probe_in, probe_out>>

\* do_relaunch: ShellExecuteW returns and process::exit(0) ends process i.
RelaunchExit(i) ==
    /\ procs[i].pc = "relaunching"
    /\ procs' = [procs EXCEPT ![i].pc = "exited"]
    /\ UNCHANGED <<app_vars, probe_in, probe_out>>

\* main() between ensure_admin and run_native: File::create of
\* audio_merger.log and CombinedLogger::init, each with expect.
MainInit(i) ==
    /\ procs[i].pc = "init"
    /\ \E log_file_ok, logger_ok \in BOOLEAN :
          procs' = [procs EXCEPT ![i].pc = IF log_file_ok /\ logger_ok
                                          THEN "gui" ELSE "panicked"]
    /\ UNCHANGED <<app_vars, probe_in, probe_out>>

\* main(): run_native returns when the window is closed.
CloseWindow(i) ==
    /\ procs[i].pc = "gui"
    /\ procs' = [procs EXCEPT ![i].pc = "closed"]
    /\ UNCHANGED <<app_vars, probe_in, probe_out>>

ElevateNext ==
    \/ \E args \in UserArgs : UserLaunch(args)
    \/ \E i \in 1..Len(procs) : EnsureAdmin(i)
    \/ \E i \in 1..Len(procs) : RelaunchExit(i)
    \/ \E i \in 1..Len(procs) : MainInit(i)
    \/ \E i \in 1..Len(procs) : CloseWindow(i)

SpecElevate == ElevateInit /\ [][ElevateNext]_vars

(***************************************************************************)
(* Vocabulary of the properties                                            *)
(***************************************************************************)
LastLog == IF logs = <<>> THEN <<"">> ELSE logs[Len(logs)]

DoneSignals == Len(SelectSeq(chan, LAMBDA m : m = MERGE_DONE))

\* A merge is pending: its worker lives, or its done signal is not drained.
MergePending == workers # <<>> \/ DoneSignals > 0

\* The worker threads inside Command::status() of ffmpeg.
FfmpegRunning ==
    Len(SelectSeq(workers, LAMBDA w : w.pc = "ffmpeg_wait" /\ w.out = <<>>))

ValidationErrors ==
    {<<"Error: Please select a video file first.">>,
     <<"Error: Please select an audio file first.">>,
     <<"Error: Please select an output path first.">>,
     <<"Error: Please pick an audio track from the dropdown.">>}

SelectionMissing ==
    \/ ~video_path.some
    \/ ~audio_path.some
    \/ ~output_path.some
    \/ ~selected_audio_track.some

\* The -map arguments of an ffmpeg argument list, in order.
Mappings(cmd) ==
    LET at == SelectSeq([k \in 1..Len(cmd) |-> k],
                        LAMBDA k : k > 1 /\ cmd[k - 1] = "-map")
    IN  [j \in 1..Len(at) |-> cmd[at[j]]]

\* The positions of `tracks` whose tag is `code`, ignoring ASCII case.
Matching(tracks, code) ==
    {k \in 1..Len(tracks) : EqIgnoreAsciiCase(tracks[k][2], code)}

Lowest(S) == CHOOSE x \in S : \A y \in S : x <= y

Ascending(tracks) ==
    \A j, k \in 1..Len(tracks) : j < k => tracks[j][1] < tracks[k][1]

\* The stream entries of an answer of ffprobe (none unless it printed a
\* streams array), and those of them that carry a usable index.
EntriesOf(reply) ==
    IF reply.launched /\ reply.success /\ reply.stdout.json
       /\ reply.stdout.streams.t = "arr"
    THEN reply.stdout.streams.items ELSE <<>>

HasIndex(e) == e.index.t = "num" /\ e.index.num >= 0

IndexedEntries(reply) == SelectSeq(EntriesOf(reply), HasIndex)

HasLanguage(e) == e.tags.t = "obj" /\ e.tags.language.t = "str"

ProbeFails(reply) ==
    \/ ~reply.launched
    \/ ~reply.success
    \/ ~reply.stdout.json
    \/ reply.stdout.streams.t # "arr"

Diagnostic(reply) ==
    IF ~reply.launched THEN "ffprobe failed to execute: {}"
    ELSE IF ~reply.success THEN "ffprobe returned nonzero for {}"
    ELSE IF ~reply.stdout.json THEN "JSON parse error: {}"
    ELSE "No streams array in ffprobe output"

(***************************************************************************)
(* C1: at most one merge is in flight. There is never more than one worker *)
(* thread or one ffmpeg subprocess, a pending merge keeps is_merging set,  *)
(* and a start_merge request made while a merge is pending is rejected     *)
(* with a log line and starts no worker.                                   *)
(***************************************************************************)
C1_SingleMergeInFlight ==
    /\ [](Len(workers) <= 1 /\ FfmpegRunning <= 1
          /\ (MergePending => is_merging))
    /\ [][(MergePending /\ StartMerge) =>
            /\ workers' = workers
            /\ is_merging' = is_merging
            /\ logs' # <<>>
            /\ logs'[Len(logs')] \in
                   ValidationErrors \cup {<<"Merge is already in progress.">>}
         ]_vars

C1_Witness ==
    /\ workers # <<>>
    /\ is_merging
    /\ LastLog = <<"Merge is already in progress.">>

(***************************************************************************)
(* C2: the mappings given to ffmpeg are exactly 0:0, one audio stream of   *)
(* the video and the chosen stream of the external file; the video audio   *)
(* stream is the raw index of the first "eng" entry of the video's probed  *)
(* streams, and the fixed index 1 when there is none.                      *)
(***************************************************************************)
C2_StreamMappings ==
    \A i \in 1..Len(workers) :
        LET w == workers[i]
            eng == Matching(w.tracks, STR_eng)
        IN  w.cmd # <<>> =>
              Mappings(w.cmd) =
                <<"0:0",
                  IF eng # {}
                  THEN "0:" \o ToString(w.tracks[Lowest(eng)][1])
                  ELSE "0:1",
                  "1:" \o ToString(w.track)>>

C2_Witness ==
    \E i \in 1..Len(workers) :
        /\ workers[i].pc = "ffmpeg_wait"
        /\ workers[i].tracks = <<<<1, STR_spa>>, <<3, STR_eng>>>>
        /\ Mappings(workers[i].cmd) = <<"0:0", "0:3", "1:0">>

(***************************************************************************)
(* C3: find_audio_track returns the index of the first stream, in list     *)
(* order, whose tag equals the code ignoring ASCII case; in a list ordered *)
(* by ascending index that is the lowest matching index; it returns None   *)
(* when no stream matches.                                                 *)
(***************************************************************************)
C3_FirstMatch ==
    probe_out.called = "find_audio_track" =>
        LET tracks == GetAllAudioTracks(ProbedFile, probe_in.reply).result
            m == Matching(tracks, probe_in.code)
            r == probe_out.ret.result
        IN  /\ m = {} => r = None
            /\ m # {} => r = Some(tracks[Lowest(m)][1])
            /\ (m # {} /\ Ascending(tracks)) =>
                   r.val = Lowest({tracks[k][1] : k \in m})
            /\ (/\ probe_in.code = STR_eng
                /\ \E k \in 1..Len(tracks) :
                       tracks[k][2] \in {STR_eng, STR_ENG}) => r.some

C3_Witness ==
    /\ probe_out.called = "find_audio_track"
    /\ probe_in.code = STR_eng
    /\ EntriesOf(probe_in.reply) =
           <<Stream(JNum(0), JObj(JStr(STR_ENG))),
             Stream(JNum(2), JObj(JStr(STR_por))),
             Stream(JNum(2), JObj(JStr(STR_eng)))>>
    /\ probe_out.ret.result = Some(0)

(***************************************************************************)
(* C4: when ffprobe cannot be launched, exits non-zero, prints something   *)
(* that does not parse, or prints no streams array, get_all_audio_tracks   *)
(* returns an empty Vec after logging the diagnostic for that case, and    *)
(* its callers go on: find_audio_track returns None and the worker takes   *)
(* the fallback mapping 0:1.                                               *)
(***************************************************************************)
C4_ProbeNeverFatal ==
    ProbeFails(probe_in.reply) =>
        /\ probe_out.called = "get_all_audio_tracks" =>
             /\ probe_out.ret.result = <<>>
             /\ probe_out.ret.msgs[Len(probe_out.ret.msgs)][1] =
                    Diagnostic(probe_in.reply)
        /\ probe_out.called = "find_audio_track" =>
             /\ probe_out.ret.result = None
             /\ probe_out.ret.msgs[Len(probe_out.ret.msgs)][1] =
                    Diagnostic(probe_in.reply)
        /\ probe_out.called = "video_audio_map" => probe_out.ret = "0:1"

C4_Witness ==
    /\ probe_in.reply = Printed(NotJson)
    /\ probe_out.called = "get_all_audio_tracks"
    /\ probe_out.ret.result = <<>>
    /\ Len(probe_out.ret.msgs) = 3

(***************************************************************************)
(* C5, as claimed: a stream list with an entry that has no index field     *)
(* makes the probe return zero streams.                                    *)
(***************************************************************************)
C5_MissingIndexEmptiesResult ==
    (/\ probe_out.called = "get_all_audio_tracks"
     /\ \E k \in 1..Len(EntriesOf(probe_in.reply)) :
            EntriesOf(probe_in.reply)[k].index = JAbsent)
    => probe_out.ret.result = <<>>

(***************************************************************************)
(* C5, amended: an entry without a usable index is skipped and nothing     *)
(* else is lost: the result holds the indexes of the entries that have     *)
(* one, in order, so it is empty only when no entry has an index.          *)
(***************************************************************************)
C5_MissingIndexSkipped ==
    probe_out.called = "get_all_audio_tracks" =>
        LET kept == IndexedEntries(probe_in.reply)
            r == probe_out.ret.result
        IN  /\ Len(r) = Len(kept)
            /\ \A k \in 1..Len(r) : r[k][1] = kept[k].index.num

C5_Witness ==
    /\ probe_out.called = "get_all_audio_tracks"
    /\ EntriesOf(probe_in.reply) =
           <<Stream(JAbsent, JObj(JStr(STR_eng))),
             Stream(JNum(2), JObj(JStr(STR_por)))>>
    /\ probe_out.ret.result = <<<<2, STR_por>>>>

(***************************************************************************)
(* C6: every entry with an index appears in the result, in order, with its *)
(* language tag, or with "unknown" when it has none.                       *)
(***************************************************************************)
C6_UntaggedIsUnknown ==
    probe_out.called = "get_all_audio_tracks" =>
        LET kept == IndexedEntries(probe_in.reply)
            r == probe_out.ret.result
        IN  /\ Len(r) = Len(kept)
            /\ \A k \in 1..Len(kept) :
                   r[k] = <<kept[k].index.num,
                            IF HasLanguage(kept[k])
                            THEN kept[k].tags.language.chars
                            ELSE STR_unknown>>

C6_Witness ==
    /\ probe_out.called = "get_all_audio_tracks"
    /\ EntriesOf(probe_in.reply) =
           <<Stream(JNum(0), JAbsent), Stream(JNum(2), JObj(JStr(STR_por)))>>
    /\ probe_out.ret.result = <<<<0, STR_unknown>>, <<2, STR_por>>>>

(***************************************************************************)
(* C7: a start_merge request with the video path, audio path, output path  *)
(* or track unset logs an "Error: ..." line and changes nothing else: no   *)
(* worker, no message, is_merging and the selections as they were.         *)
(***************************************************************************)
C7_MissingSelectionRejected ==
    [][(SelectionMissing /\ StartMerge) =>
          /\ logs' # <<>>
          /\ logs'[Len(logs')] \in ValidationErrors
          /\ UNCHANGED <<workers, chan, is_merging, video_path, audio_path,
                         output_path, audio_tracks, selected_audio_track>>
      ]_vars

C7_Witness ==
    /\ video_path.some
    /\ audio_path.some
    /\ ~output_path.some
    /\ LastLog = <<"Error: Please select an output path first.">>
    /\ workers = <<>>
    /\ ~is_merging

(***************************************************************************)
(* C8: every started merge ends with exactly one done signal and the busy  *)
(* flag is then cleared: while is_merging is set exactly one worker or     *)
(* done signal exists (and none while it is clear), is_merging is cleared  *)
(* only by the poll that receives MERGE_DONE, and a set is_merging is      *)
(* eventually cleared.                                                     *)
(***************************************************************************)
C8_MergeEndsAndClearsBusy ==
    /\ [](Len(workers) + DoneSignals = IF is_merging THEN 1 ELSE 0)
    /\ [][(is_merging /\ ~is_merging') => (DoneSignals = 1 /\ Poll)]_vars
    /\ (is_merging ~> ~is_merging)

C8_Witness ==
    /\ ~is_merging
    /\ workers = <<>>
    /\ LastLog = <<"Merge thread finished.">>
    /\ video_path.some /\ audio_path.some /\ output_path.some
    /\ selected_audio_track.some

(***************************************************************************)
(* C9, as claimed: the UI thread never waits for a tool subprocess.        *)
(***************************************************************************)
C9_UiNeverWaitsForTool == ui.pc # "probe_wait"

(***************************************************************************)
(* C10: the worker uses the values captured when the merge was started: a  *)
(* new worker holds the paths and track selected at that moment, no step   *)
(* changes what a live worker holds, and the ffmpeg command is built from  *)
(* what the worker holds.                                                  *)
(***************************************************************************)
Captured(w) == <<w.video, w.audio, w.output, w.track>>

C10_WorkerUsesCapturedValues ==
    /\ [][/\ Len(workers') > Len(workers) =>
               Captured(workers'[Len(workers')]) =
                   <<video_path.val, audio_path.val, output_path.val,
                     selected_audio_track.val>>
          /\ Len(workers') = Len(workers) =>
               \A i \in 1..Len(workers) :
                   Captured(workers'[i]) = Captured(workers[i])
         ]_vars
    /\ [](\A i \in 1..Len(workers) :
            LET w == workers[i]
            IN  w.cmd # <<>> =>
                  /\ w.cmd[6] = w.video
                  /\ w.cmd[8] = w.audio
                  /\ w.cmd[14] = "1:" \o ToString(w.track)
                  /\ w.cmd[17] = w.output
                  /\ Len(w.cmd) = 17)

C10_Witness ==
    \E i \in 1..Len(workers) :
        /\ workers[i].pc = "ffmpeg_wait"
        /\ audio_path # Some(workers[i].audio)
        /\ audio_tracks = <<>>
        /\ selected_audio_track # Some(workers[i].track)
        /\ workers[i].cmd[6] = workers[i].video
        /\ workers[i].cmd[8] = workers[i].audio
        /\ workers[i].cmd[17] = workers[i].output

(***************************************************************************)
(* C11: the worker's lines reach the log in the order they were sent, none *)
(* lost, none twice. At every moment the lines of the current merge that   *)
(* are in the log, followed by those still in the channel, are exactly the *)
(* lines the worker has sent so far, in sending order: searching, the      *)
(* 'eng' result, running, the outcome, then "Merge thread finished.". So   *)
(* the outcome line is logged after the merge's earlier lines and before   *)
(* the finished line, and nothing of the merge is logged after that line.  *)
(* The newest line of the log agrees with this reading.                    *)
(***************************************************************************)
\* The worker's lines that are in the channel, as the drain loop will log
\* them.
InFlightKinds ==
    SelectSeq([k \in 1..Len(chan) |->
                  IF chan[k] = MERGE_DONE THEN "finished"
                  ELSE MergeLineKind(chan[k])],
              LAMBDA x : x # "other")

\* How many of its lines the worker of the current merge has sent.
SentSoFar ==
    IF workers # <<>>
    THEN CASE workers[1].pc = "spawned" -> 0
           [] workers[1].pc = "probe_wait" -> 1
           [] workers[1].pc = "ffmpeg_wait" ->
                 3 - Len(SelectSeq(workers[1].out,
                                   LAMBDA m : MergeLineKind(m) # "other"))
           [] workers[1].pc = "finish" -> 4
    ELSE IF is_merging THEN 5
    ELSE Len(merge_lines)

C11_WorkerLinesInOrder ==
    /\ merge_lines \o InFlightKinds = SubSeq(MergeLineOrder, 1, SentSoFar)
    /\ ~is_merging => merge_lines \in {<<>>, MergeLineOrder}
    /\ MergeLineKind(LastLog) \notin {"start", "other"} =>
          /\ merge_lines # <<>>
          /\ merge_lines[Len(merge_lines)] = MergeLineKind(LastLog)
    /\ MergeLineKind(LastLog) = "start" => merge_lines = <<>>

C11_Witness ==
    /\ ~is_merging
    /\ merge_lines = MergeLineOrder
    /\ LastLog = <<"Merge thread finished.">>
    /\ chan = <<>>

(***************************************************************************)
(* C12: the external track index of a merge is an index of the stream list *)
(* probed from the external audio file the merge uses. Whenever the UI     *)
(* thread is not inside the "Select Audio File" handler, the selected      *)
(* track is unset or the index of an entry of the track list, and the      *)
(* track list is a probe result of the current external-audio path (empty  *)
(* while no path is set). The external-audio path changes only by starting *)
(* that handler, and when the handler's probe returns, the list is the     *)
(* probe result of the new path and the selection is its first "por"       *)
(* entry, or unset when it has none. Every worker's track is an index of a *)
(* stream that ffprobe lists for the worker's external audio file.         *)
(***************************************************************************)
\* The UI thread is inside the "Select Audio File" handler.
InProbe == ui.pc \in {"probe_wait", "probe_send"}

TrackIndexes(tracks) == {tracks[k][1] : k \in 1..Len(tracks)}

\* What get_all_audio_tracks can return for `path`.
ProbeResults(path) ==
    {GetAllAudioTracksReturn(path, reply).result :
        reply \in FfprobeAnswers(path)}

\* The first entry of `tracks` tagged "por", ignoring ASCII case.
FirstPor(tracks) ==
    IF Matching(tracks, STR_por) = {} THEN None
    ELSE Some(tracks[Lowest(Matching(tracks, STR_por))][1])

C12_TrackIsOfProbedList ==
    /\ [](~InProbe =>
            /\ selected_audio_track.some =>
                  selected_audio_track.val \in TrackIndexes(audio_tracks)
            /\ IF audio_path.some
               THEN audio_tracks \in ProbeResults(audio_path.val)
               ELSE audio_tracks = <<>>)
    /\ [](\A i \in 1..Len(workers) :
            \E tracks \in ProbeResults(workers[i].audio) :
                workers[i].track \in TrackIndexes(tracks))
    /\ [][/\ audio_path' # audio_path => ui'.pc = "probe_wait"
          /\ InProbe /\ ~InProbe' =>
                /\ audio_tracks' \in ProbeResults(audio_path.val)
                /\ selected_audio_track' = FirstPor(audio_tracks')
         ]_vars

\* A merge runs on a track picked from the dropdown, and meanwhile another
\* external file was selected, whose probe replaced the list and the
\* selection.
C12_Witness ==
    /\ ui.pc = "widgets"
    /\ \E i \in 1..Len(workers) :
          /\ workers[i].audio = "alt.mka"
          /\ workers[i].track = 2
    /\ audio_path = Some("dub.mka")
    /\ audio_tracks = <<<<0, STR_Por>>>>
    /\ selected_audio_track = Some(0)

(***************************************************************************)
(* C13: elevation starts the program again at most once per user launch.   *)
(* Flagged(i): the command line of process i has the argument              *)
(* "--elevated". Children(i): the processes that process i started.        *)
(***************************************************************************)
Flagged(i) ==
    \E k \in 1..Len(procs[i].args) : procs[i].args[k] = Arg(ELEVATED)

Children(i) == {j \in 1..Len(procs) : procs[j].parent = i}

\* ensure_admin returned in process i because the process is already
\* elevated or the administrators SID could not be created, and main went
\* on; the process started nothing.
Continues(i) ==
    /\ procs[i].via \in {"already_elevated", "no_sid"}
    /\ procs[i].pc \in {"init", "gui", "closed", "panicked"}
    /\ Children(i) = {}

\* Process i called do_relaunch because its token could not be opened or
\* the membership check failed or said no, and is inside ShellExecuteW or
\* has exited; it started at most one process.
InRelaunch(i) ==
    /\ procs[i].via \in {"no_token", "not_elevated"}
    /\ procs[i].pc \in {"relaunching", "exited"}
    /\ Cardinality(Children(i)) <= 1

\* Process i ended inside ensure_admin before it started anything: the
\* panic of std::env::args() or of current_exe().expect, or the end of the
\* process in LocalFree.
EndedInEnsureAdmin(i) ==
    /\ \/ procs[i].pc = "panicked" /\
          procs[i].via \in {"args", "no_token", "not_elevated"}
       \/ procs[i].pc = "crashed" /\ procs[i].via = "local_free"
    /\ Children(i) = {}

\* C13 as the specification states it: a process with the flag never
\* relaunches; a process without the flag that has left ensure_admin
\* either continues or has relaunched with the flag (the process it
\* started exists) and exits; no process the program started starts
\* another. The code has further ways out of ensure_admin.
C13_ContinuesOrRelaunches ==
    \A i \in 1..Len(procs) :
        /\ Flagged(i) =>
              /\ procs[i].pc \notin {"relaunching", "exited"}
              /\ Children(i) = {}
        /\ (~Flagged(i) /\ procs[i].pc # "main") =>
              \/ Continues(i)
              \/ /\ InRelaunch(i)
                 /\ \E j \in Children(i) : Flagged(j)
        /\ procs[i].parent # 0 => procs[procs[i].parent].parent = 0

\* C13, amended: a process with the flag never calls do_relaunch: it never
\* exits from there and starts no process. A process without the flag that
\* has left ensure_admin either continues (already elevated, or no SID), or
\* is in do_relaunch or has exited from it, having started at most one
\* process (none when ShellExecuteW started nothing), or has ended inside
\* ensure_admin by a panic or in LocalFree, having started nothing. While
\* the relaunching process is still inside ShellExecuteW the process it
\* started may already run; its only step from there is its exit. Every
\* process the program starts has the command line <<exe, "--elevated">>
\* (it panics in std::env::args() when the path of the executable is not
\* Unicode) and was started by a process the user started: no chain of
\* relaunches is longer than one. A step adds at most one process, either a user
\* launch or the relaunch of a process that was in ensure_admin without
\* the flag.
C13_RelaunchAtMostOnce ==
    /\ [](\A i \in 1..Len(procs) :
            /\ Flagged(i) =>
                  /\ procs[i].pc \in
                        {"main", "init", "gui", "closed", "panicked"}
                  /\ procs[i].via \in {"none", "flag", "args"}
                  /\ procs[i].via = "flag" =>
                        procs[i].pc \in {"init", "gui", "closed", "panicked"}
                  /\ procs[i].via = "args" => procs[i].pc = "panicked"
                  /\ Children(i) = {}
            /\ (~Flagged(i) /\ procs[i].pc = "main") =>
                  /\ procs[i].via = "none"
                  /\ Children(i) = {}
            /\ (~Flagged(i) /\ procs[i].pc # "main") =>
                  \/ Continues(i)
                  \/ InRelaunch(i)
                  \/ EndedInEnsureAdmin(i)
            /\ procs[i].parent # 0 =>
                  /\ \E path \in ExePaths :
                        procs[i].args = RelaunchArgs(path)
                  /\ procs[procs[i].parent].parent = 0)
    /\ [](Len(procs) <= 2 * Len(UserLaunched))
    /\ [][/\ Len(procs') <= Len(procs) + 1
          /\ \A i \in 1..Len(procs) :
                /\ procs'[i].args = procs[i].args
                /\ procs'[i].parent = procs[i].parent
          /\ Len(procs') > Len(procs) =>
                LET child == procs'[Len(procs')]
                IN  child.parent # 0 =>
                      /\ procs[child.parent].pc = "main"
                      /\ ~Flagged(child.parent)
                      /\ procs'[child.parent].pc = "relaunching"
          /\ \A i \in 1..Len(procs) :
                procs[i].pc = "relaunching" =>
                   /\ procs'[i].pc \in {"relaunching", "exited"}
                   /\ Len(procs') > Len(procs) =>
                         procs'[Len(procs')].parent # i
         ]_vars

\* A process started without the flag has relaunched and exited; the
\* process it started carries the flag, has passed ensure_admin and shows
\* its window, with no further process started.
C13_Witness ==
    \E i, j \in 1..Len(procs) :
        /\ ~Flagged(i)
        /\ procs[i].pc = "exited"
        /\ procs[j].parent = i
        /\ procs[j].args = RelaunchArgs(Arg(Exe))
        /\ procs[j].pc = "gui"
        /\ procs[j].via = "flag"
        /\ Children(j) = {}

=============================================================================
